---------------------------- MODULE Spec2Model ----------------------------
(***************************************************************************)
(* Crash log labelling of ModOrganizer-CrashLogTools:                      *)
(*   crashlogutil.py   CrashLog, CrashLogProcessor, IdScanner              *)
(*   crashloglabeler.py  the two host callbacks of CrashLogLabeler         *)
(*                                                                         *)
(* A byte string is a sequence of one-character strings; a file is the     *)
(* sequence of the lines f.readline() returns for it (every line ends in   *)
(* "\n" except possibly the last one, and no line is empty).               *)
(***************************************************************************)
EXTENDS Integers, Sequences, FiniteSets, TLC

(* ----------------------------- bounds --------------------------------- *)
\* longest call-stack section of the generated logs
MaxStack == 2
\* largest number of host callback invocations in one behaviour
MaxCallbacks == 2
\* longest file of the segmentation specification
MaxLogLines == 4
\* largest number of rewrite_call_stack calls on one CrashLog
MaxRewrites == 2
\* number of ids the databases of the lookup specification draw from
MaxDbIds == 3
\* largest number of find calls on one IdScanner in the scanner specification
MaxProbes == 3

(* --------------------------- byte strings ----------------------------- *)
Digit == {"0", "1", "2", "3", "4", "5", "6", "7", "8", "9"}
HexDigit == Digit \cup {"A", "B", "C", "D", "E", "F"}
\* bytes.split() and int() treat these as whitespace
Whitespace == {" ", "\t", "\n", "\r", "\f"}

DigitVal(c) ==
    CASE c = "0" -> 0 [] c = "1" -> 1 [] c = "2" -> 2 [] c = "3" -> 3
      [] c = "4" -> 4 [] c = "5" -> 5 [] c = "6" -> 6 [] c = "7" -> 7
      [] c = "8" -> 8 [] c = "9" -> 9

\* int(b"...") of a non-empty run of decimal digits
RECURSIVE ParseInt(_)
ParseInt(s) ==
    IF s = <<>> THEN 0
    ELSE 10 * ParseInt(SubSeq(s, 1, Len(s) - 1)) + DigitVal(s[Len(s)])

\* b"".join(lines)
RECURSIVE Concat(_)
Concat(lines) ==
    IF lines = <<>> THEN <<>> ELSE Head(lines) \o Concat(Tail(lines))

Max(a, b) == IF a >= b THEN a ELSE b

\* bytes.ljust(width, b' ')
RECURSIVE ljust(_, _)
ljust(s, width) == IF Len(s) >= width THEN s ELSE ljust(s \o <<" ">>, width)

\* bytes.rstrip(chars)
RECURSIVE rstrip(_, _)
rstrip(s, chars) ==
    IF s /= <<>> /\ s[Len(s)] \in chars
    THEN rstrip(SubSeq(s, 1, Len(s) - 1), chars)
    ELSE s

(* --------------------- STACK_PATTERN (re.match) ----------------------- *)
(* Positions are 1-based indices of the next unread byte; 0 is "no match". *)
\* end of the longest run of bytes of S that starts at i
Span(s, i, S) ==
    CHOOSE j \in i..(Len(s) + 1) :
        /\ \A k \in i..(j - 1) : s[k] \in S
        /\ (j = Len(s) + 1 \/ s[j] \notin S)

\* a literal
Lit(s, i, lit) ==
    IF i /= 0 /\ i + Len(lit) - 1 <= Len(s) /\ SubSeq(s, i, i + Len(lit) - 1) = lit
    THEN i + Len(lit) ELSE 0

\* [S]+ , greedy; what follows it in the pattern is never a byte of S
Plus(s, i, S) ==
    IF i = 0 THEN 0 ELSE LET j == Span(s, i, S) IN IF j > i THEN j ELSE 0

\* [S]* , greedy
Star(s, i, S) == IF i = 0 THEN 0 ELSE Span(s, i, S)

\* \t\[ *\d+] 0x[0-9A-F]+<space>
FrameHead(s) ==
    LET a == Lit(s, 1, <<"\t", "[">>)
        b == Star(s, a, {" "})
        c == Plus(s, b, Digit)
        d == Lit(s, c, <<"]", " ", "0", "x">>)
        e == Plus(s, d, HexDigit)
    IN  Lit(s, e, <<" ">>)

\* \+[0-9A-F]+ -> (?P<id>\d+)\+0x[0-9A-F]+  tried at position q
FrameTail(s, q) ==
    LET a == Lit(s, q, <<"+">>)
        b == Plus(s, a, HexDigit)
        c == Lit(s, b, <<" ", "-", ">", " ">>)
        d == Plus(s, c, Digit)
        e == Lit(s, d, <<"+", "0", "x">>)
        g == Plus(s, e, HexDigit)
    IN  [end |-> g, group1 |-> b, idFrom |-> c, idTo |-> d]

\* STACK_PATTERN.match(line): the greedy .* takes the last position at which
\* the rest of the pattern matches; "." does not match "\n".
STACK_PATTERN(line) ==
    LET p == FrameHead(line)
        Q == IF p = 0 THEN {}
             ELSE {q \in p..Len(line) :
                     /\ \A k \in p..(q - 1) : line[k] /= "\n"
                     /\ FrameTail(line, q).end /= 0}
    IN  IF Q = {} THEN [matched |-> FALSE, group0 |-> <<>>, group1 |-> <<>>, id |-> 0]
        ELSE LET q == CHOOSE x \in Q : \A y \in Q : y <= x
                 t == FrameTail(line, q)
             IN  [matched |-> TRUE,
                  group0  |-> SubSeq(line, 1, t.end - 1),
                  group1  |-> SubSeq(line, 1, t.group1 - 1),
                  id      |-> ParseInt(SubSeq(line, t.idFrom, t.idTo - 1))]

(* ------------------------- sample byte lines -------------------------- *)
NL == <<"\n">>
MARKER == <<"P","R","O","B","A","B","L","E"," ","C","A","L","L"," ",
            "S","T","A","C","K",":","\n">>
REGISTERS == <<"R","E","G","I","S","T","E","R","S",":","\n">>
\* a marker look-alike without the colon: b"PROBABLE CALL STACK\n"
NearMarker == <<"P","R","O","B","A","B","L","E"," ","C","A","L","L"," ",
                "S","T","A","C","K","\n">>
TextLine == <<"R","A","X"," ","0","x","1","\n">>
\* the last line of a file cut off inside "REGISTERS:\n": b"REGISTERS:"
RegistersCut == <<"R","E","G","I","S","T","E","R","S",":">>
\* b"\t[0] 0x1A M+1 -> 5+0x1\n"
Frame5 == <<"\t","[","0","]"," ","0","x","1","A"," ","M","+","1",
            " ","-",">"," ","5","+","0","x","1","\n">>
\* b"\t[ 1] 0x2B MM+2F -> 10+0x2C mov\n": bytes follow the match
Frame10 == <<"\t","["," ","1","]"," ","0","x","2","B"," ","M","M","+","2","F",
             " ","-",">"," ","1","0","+","0","x","2","C"," ","m","o","v","\n">>
\* b"\t[3] 0x4D M+4\n": a frame without an id, no match
FrameNoId == <<"\t","[","3","]"," ","0","x","4","D"," ","M","+","4","\n">>

(* ---------------------------- CrashLog -------------------------------- *)
\* index of the first line from `from` on that is in S, 0 when there is none
FirstIn(lines, from, S) ==
    LET I == {i \in from..Len(lines) : lines[i] \in S}
    IN  IF I = {} THEN 0 ELSE CHOOSE i \in I : \A j \in I : i <= j

\* read_file whose third loop reads the next line before it appends: the
\* terminator line is lost
read_file_skips_terminator(lines) ==
    LET m == FirstIn(lines, 1, {MARKER})
    IN  IF m = 0
        THEN [pre_call_stack |-> lines, call_stack |-> <<>>, post_call_stack |-> <<>>]
        ELSE LET t == FirstIn(lines, m + 1, {NL, REGISTERS})
             IN  IF t = 0
                 THEN [pre_call_stack  |-> SubSeq(lines, 1, m),
                       call_stack      |-> SubSeq(lines, m + 1, Len(lines)),
                       post_call_stack |-> <<>>]
                 ELSE [pre_call_stack  |-> SubSeq(lines, 1, m),
                       call_stack      |-> SubSeq(lines, m + 1, t - 1),
                       post_call_stack |->
                           (IF lines[t] = REGISTERS THEN <<NL>> ELSE <<>>)
                           \o SubSeq(lines, t + 1, Len(lines))]

\* read_file that ends the call stack at a line that starts with REGISTERS:
read_file_loose_terminator(lines) ==
    LET m == FirstIn(lines, 1, {MARKER})
    IN  IF m = 0
        THEN [pre_call_stack |-> lines, call_stack |-> <<>>, post_call_stack |-> <<>>]
        ELSE LET t == FirstIn(lines, m + 1, {NL, REGISTERS, RegistersCut})
             IN  IF t = 0
                 THEN [pre_call_stack  |-> SubSeq(lines, 1, m),
                       call_stack      |-> SubSeq(lines, m + 1, Len(lines)),
                       post_call_stack |-> <<>>]
                 ELSE [pre_call_stack  |-> SubSeq(lines, 1, m),
                       call_stack      |-> SubSeq(lines, m + 1, t - 1),
                       post_call_stack |->
                           (IF lines[t] /= NL THEN <<NL>> ELSE <<>>)
                           \o SubSeq(lines, t, Len(lines))]

\* read_file that takes the marker without its colon for the marker too
read_file_loose_marker(lines) ==
    LET m == FirstIn(lines, 1, {MARKER, NearMarker})
    IN  IF m = 0
        THEN [pre_call_stack |-> lines, call_stack |-> <<>>, post_call_stack |-> <<>>]
        ELSE LET t == FirstIn(lines, m + 1, {NL, REGISTERS})
             IN  IF t = 0
                 THEN [pre_call_stack  |-> SubSeq(lines, 1, m),
                       call_stack      |-> SubSeq(lines, m + 1, Len(lines)),
                       post_call_stack |-> <<>>]
                 ELSE [pre_call_stack  |-> SubSeq(lines, 1, m),
                       call_stack      |-> SubSeq(lines, m + 1, t - 1),
                       post_call_stack |->
                           (IF lines[t] = REGISTERS THEN <<NL>> ELSE <<>>)
                           \o SubSeq(lines, t, Len(lines))]

\* CrashLog.read_file: the three readline loops
read_file(lines) ==
    LET m == FirstIn(lines, 1, {MARKER})
    IN  IF m = 0
        THEN [pre_call_stack |-> lines, call_stack |-> <<>>, post_call_stack |-> <<>>]
        ELSE LET t == FirstIn(lines, m + 1, {NL, REGISTERS})
             IN  IF t = 0
                 THEN [pre_call_stack  |-> SubSeq(lines, 1, m),
                       call_stack      |-> SubSeq(lines, m + 1, Len(lines)),
                       post_call_stack |-> <<>>]
                 ELSE [pre_call_stack  |-> SubSeq(lines, 1, m),
                       call_stack      |-> SubSeq(lines, m + 1, t - 1),
                       post_call_stack |->
                           (IF lines[t] = REGISTERS THEN <<NL>> ELSE <<>>)
                           \o SubSeq(lines, t, Len(lines))]

\* the lines readline() yields for a byte string
RECURSIVE readlines(_)
readlines(bytes) ==
    IF bytes = <<>> THEN <<>>
    ELSE LET n == FirstIn(bytes, 1, {"\n"})
         IN  IF n = 0 THEN <<bytes>>
             ELSE <<SubSeq(bytes, 1, n)>> \o readlines(SubSeq(bytes, n + 1, Len(bytes)))

\* write_file that writes the trailer before the call stack
write_file_trailer_first(log) ==
    readlines(Concat(log.pre_call_stack \o log.post_call_stack \o log.call_stack))

\* CrashLog.write_file: writelines of the three segments; the result is the
\* file as a later readline loop sees it
write_file(log) ==
    readlines(Concat(log.pre_call_stack \o log.call_stack \o log.post_call_stack))


\* CrashLog.__init__: three empty segments, changed = False, then read_file
CrashLog(lines) ==
    LET r == read_file(lines)
    IN  [pre_call_stack  |-> r.pre_call_stack,
         call_stack      |-> r.call_stack,
         post_call_stack |-> r.post_call_stack,
         changed         |-> FALSE]

\* rewrite_call_stack whose flag follows the last comparison
rewrite_call_stack_tracks_last(log, callback) ==
    LET built == [i \in 1..Len(log.call_stack) |-> callback[log.call_stack[i]]]
    IN  [log EXCEPT !.changed = (built /= log.call_stack),
                    !.call_stack = built]

\* CrashLog.rewrite_call_stack; callback is given as the function line -> line
rewrite_call_stack(log, callback) ==
    LET built == [i \in 1..Len(log.call_stack) |-> callback[log.call_stack[i]]]
    IN  IF built /= log.call_stack
        THEN [log EXCEPT !.changed = TRUE, !.call_stack = built]
        ELSE log

Range(seq) == {seq[i] : i \in 1..Len(seq)}

(* ------------------------ CrashLogProcessor --------------------------- *)
\* the first loop of process_log: the ids of the matching call-stack lines
addr_ids_of(call_stack) ==
    {STACK_PATTERN(call_stack[i]).id :
        i \in {j \in 1..Len(call_stack) : STACK_PATTERN(call_stack[j]).matched}}

\* width without the separating space: max(width, len(match.group(0)))
RECURSIVE width_of_no_separator(_)
width_of_no_separator(call_stack) ==
    IF call_stack = <<>> THEN 0
    ELSE LET m    == STACK_PATTERN(call_stack[Len(call_stack)])
             rest == width_of_no_separator(SubSeq(call_stack, 1, Len(call_stack) - 1))
         IN  IF m.matched THEN Max(rest, Len(m.group0)) ELSE rest

\* the first loop of process_log: width = max(width, len(match.group(0)) + 1)
RECURSIVE width_of(_)
width_of(call_stack) ==
    IF call_stack = <<>> THEN 0
    ELSE LET m    == STACK_PATTERN(call_stack[Len(call_stack)])
             rest == width_of(SubSeq(call_stack, 1, Len(call_stack) - 1))
         IN  IF m.matched THEN Max(rest, Len(m.group0) + 1) ELSE rest

\* sorted(addr_ids)
RECURSIVE sorted(_)
sorted(S) ==
    IF S = {} THEN <<>>
    ELSE LET lo == CHOOSE x \in S : \A y \in S : x <= y
         IN  <<lo>> \o sorted(S \ {lo})

\* add_name that takes group(1), the frame text before " -> ", for stack_frame
add_name_prefix_only(line, id_lookup, width) ==
    LET match == STACK_PATTERN(line)
    IN  IF ~match.matched THEN line
        ELSE IF match.id \notin DOMAIN id_lookup \/ id_lookup[match.id] = <<>>
        THEN match.group1 \o NL
        ELSE ljust(match.group1, width) \o rstrip(id_lookup[match.id], {"_", "*"}) \o NL

\* add_name that puts the name after the whole line, not after the matched
\* text
add_name_appends(line, id_lookup, width) ==
    LET match == STACK_PATTERN(line)
    IN  IF ~match.matched THEN line
        ELSE IF match.id \notin DOMAIN id_lookup \/ id_lookup[match.id] = <<>>
        THEN match.group0 \o NL
        ELSE ljust(rstrip(line, {"\n"}), width)
                 \o rstrip(id_lookup[match.id], {"_", "*"}) \o NL

\* CrashLogProcessor.add_name; id_lookup is a function id -> name
add_name(line, id_lookup, width) ==
    LET match == STACK_PATTERN(line)
    IN  IF ~match.matched THEN line
        ELSE IF match.id \notin DOMAIN id_lookup \/ id_lookup[match.id] = <<>>
        THEN match.group0 \o NL
        ELSE ljust(match.group0, width) \o rstrip(id_lookup[match.id], {"_", "*"}) \o NL

(* ----------------------------- IdScanner ------------------------------ *)
\* bytes.split(): the maximal runs of non-whitespace bytes
RECURSIVE split(_)
split(s) ==
    LET a == Span(s, 1, Whitespace)
    IN  IF a > Len(s) THEN <<>>
        ELSE LET b == Span(s, a, {c \in Range(s) : c \notin Whitespace})
             IN  <<SubSeq(s, a, b - 1)>> \o split(SubSeq(s, b, Len(s)))

\* int(token) accepts an optional sign and digits with single underscores
\* between them; anything else raises ValueError
IntBody(tok) == IF tok /= <<>> /\ tok[1] \in {"+", "-"} THEN Tail(tok) ELSE tok
IntOk(tok) ==
    LET b == IntBody(tok)
    IN  /\ b /= <<>>
        /\ \A i \in 1..Len(b) : b[i] \in Digit \cup {"_"}
        /\ b[1] \in Digit /\ b[Len(b)] \in Digit
        /\ \A i \in 1..(Len(b) - 1) : ~(b[i] = "_" /\ b[i + 1] = "_")
IntOf(tok) ==
    LET b == IntBody(tok)
        v == ParseInt(SelectSeq(b, LAMBDA c : c \in Digit))
    IN  IF tok[1] = "-" THEN 0 - v ELSE v

\* IdScanner.__init__: f = None, nextLine = b""; reads lists the database
\* lines (by index) that readline() has returned on this scanner
IdScanner == [f |-> "None", pos |-> 0, nextLine |-> <<>>, reads |-> <<>>]

\* self.f.readline() on the database file: the line after the last one read,
\* b"" at end of file
readline(scanner, db) ==
    IF scanner.pos < Len(db)
    THEN [scanner EXCEPT !.pos = @ + 1, !.nextLine = db[scanner.pos + 1],
                         !.reads = Append(@, scanner.pos + 1)]
    ELSE [scanner EXCEPT !.nextLine = <<>>]

\* IdScanner.__enter__ on an existing file: open, skip the header line, read
\* the first data line
enter(scanner, db) ==
    readline(readline([scanner EXCEPT !.f = "open"], db), db)

\* __exit__ that does not close the file
exit_leaves_open(scanner) == scanner

\* IdScanner.__exit__
exit(scanner) == IF scanner.f = "open" THEN [scanner EXCEPT !.f = "closed"] ELSE scanner

\* find that reads the next line after every comparison that is not a
\* match, also when the line's id is the larger one
RECURSIVE find_advances_past_larger(_, _, _)
find_advances_past_larger(scanner, db, addr_id) ==
    IF scanner.nextLine = <<>>
    THEN [scanner |-> scanner, name |-> <<>>, raised |-> FALSE]
    ELSE LET toks == split(scanner.nextLine)
         IN  IF Len(toks) /= 2 \/ ~IntOk(toks[1])
             THEN [scanner |-> scanner, name |-> <<>>, raised |-> TRUE]
             ELSE LET parsed_id == IntOf(toks[1])
                  IN  IF parsed_id = addr_id
                      THEN [scanner |-> scanner, name |-> toks[2], raised |-> FALSE]
                      ELSE IF parsed_id > addr_id
                      THEN [scanner |-> readline(scanner, db), name |-> <<>>,
                            raised |-> FALSE]
                      ELSE find_advances_past_larger(readline(scanner, db), db, addr_id)

\* find that reads the line after the matched one before it returns the name
RECURSIVE find_reads_past_match(_, _, _)
find_reads_past_match(scanner, db, addr_id) ==
    IF scanner.nextLine = <<>>
    THEN [scanner |-> scanner, name |-> <<>>, raised |-> FALSE]
    ELSE LET toks == split(scanner.nextLine)
         IN  IF Len(toks) /= 2 \/ ~IntOk(toks[1])
             THEN [scanner |-> scanner, name |-> <<>>, raised |-> TRUE]
             ELSE LET parsed_id == IntOf(toks[1])
                  IN  IF parsed_id = addr_id
                      THEN [scanner |-> readline(scanner, db), name |-> toks[2],
                            raised |-> FALSE]
                      ELSE IF parsed_id > addr_id
                      THEN [scanner |-> scanner, name |-> <<>>, raised |-> FALSE]
                      ELSE find_reads_past_match(readline(scanner, db), db, addr_id)

\* find that seeks back to the first data line before it scans
find_rewinds(scanner, db, addr_id) ==
    LET I == {i \in 2..Len(db) : IntOf(split(db[i])[1]) >= addr_id}
    IN  IF I = {}
        THEN [scanner |-> [scanner EXCEPT !.pos = Len(db), !.nextLine = <<>>],
              name |-> <<>>, raised |-> FALSE]
        ELSE LET i == CHOOSE x \in I : \A y \in I : x <= y
             IN  [scanner |-> [scanner EXCEPT !.pos = i, !.nextLine = db[i]],
                  name |-> IF IntOf(split(db[i])[1]) = addr_id
                           THEN split(db[i])[2] ELSE <<>>,
                  raised |-> FALSE]

\* find that skips a line that is not "<id> <name>" instead of raising
RECURSIVE find_skips_corrupt(_, _, _)
find_skips_corrupt(scanner, db, addr_id) ==
    IF scanner.nextLine = <<>>
    THEN [scanner |-> scanner, name |-> <<>>, raised |-> FALSE]
    ELSE LET toks == split(scanner.nextLine)
         IN  IF Len(toks) /= 2 \/ ~IntOk(toks[1])
             THEN find_skips_corrupt(readline(scanner, db), db, addr_id)
             ELSE LET parsed_id == IntOf(toks[1])
                  IN  IF parsed_id = addr_id
                      THEN [scanner |-> scanner, name |-> toks[2], raised |-> FALSE]
                      ELSE IF parsed_id > addr_id
                      THEN [scanner |-> scanner, name |-> <<>>, raised |-> FALSE]
                      ELSE find_skips_corrupt(readline(scanner, db), db, addr_id)

\* IdScanner.find: name is <<>> for None; raised is the ValueError of the
\* tuple unpacking or of int() on a line that is not "<id> <name>"
RECURSIVE find(_, _, _)
find(scanner, db, addr_id) ==
    IF scanner.nextLine = <<>>
    THEN [scanner |-> scanner, name |-> <<>>, raised |-> FALSE]
    ELSE LET toks == split(scanner.nextLine)
         IN  IF Len(toks) /= 2 \/ ~IntOk(toks[1])
             THEN [scanner |-> scanner, name |-> <<>>, raised |-> TRUE]
             ELSE LET parsed_id == IntOf(toks[1])
                  IN  IF parsed_id = addr_id
                      THEN [scanner |-> scanner, name |-> toks[2], raised |-> FALSE]
                      ELSE IF parsed_id > addr_id
                      THEN [scanner |-> scanner, name |-> <<>>, raised |-> FALSE]
                      ELSE find(readline(scanner, db), db, addr_id)

(* ------------------------------ state --------------------------------- *)
VARIABLES
    files,           \* path -> the lines of the file at that path
    present,         \* the paths that exist in the crash log directory
    dbExists,        \* os.path.exists(get_database_path())
    dbLines,         \* the lines of the database file
    finder,          \* CrashLogLabeler.finder is set
    processor,       \* CrashLogLabeler.processor is set
    processed_logs,  \* CrashLogLabeler.processed_logs
    callback,        \* the host callback that is running: "none", "init", "finished"
    calls,           \* callbacks the host has fired so far
    uiInitialized,   \* the host has fired onUserInterfaceInitialized
    logs,            \* the set the running callback iterates (logs / new_logs)
    todo,            \* the logs of that set the for loop has not reached yet
    raised,          \* the last callback ended by an exception
    pc,              \* position inside process_log, "idle" outside of it
    log,             \* the argument of process_log
    crash_log,       \* the CrashLog of process_log
    id_list,         \* process_log: sorted(addr_ids)
    idx,             \* lookup_ids: the next index of id_list
    width,           \* process_log: width
    id_lookup,       \* lookup_ids: lookup
    scanner,         \* the IdScanner of lookup_ids
    before,          \* the lines of the log when process_log started
    original,        \* crash_log.call_stack as read, before any rewrite
    trace,           \* delete callback and write events of this process_log call
    rewrites,        \* rewrite_call_stack calls on crash_log
    new_call_stack,  \* the list the last rewrite_call_stack call built
    finds,           \* the find calls that returned: <<addr_id, name>>
    previous         \* the process_log call of the session before a restart

vars == <<files, present, dbExists, dbLines, finder, processor,
          processed_logs, callback, calls, uiInitialized, logs, todo, raised, pc,
          log, crash_log, id_list, idx, width, id_lookup, scanner, before,
          original, trace, rewrites, new_call_stack, finds, previous>>

labelerVars == <<finder, processor, processed_logs, callback, calls,
                 uiInitialized, logs, todo, raised>>
lookupVars == <<id_list, idx, width, id_lookup, scanner>>
fsVars == <<files, present>>
dbVars == <<dbExists, dbLines>>
histVars == <<finds, previous>>

(* ------------------------------ inputs -------------------------------- *)
Paths == {"crash-1.log", "crash-2.log"}

\* all sequences over S of length at most n
RECURSIVE SeqsUpTo(_, _)
SeqsUpTo(S, n) ==
    IF n = 0 THEN {<<>>}
    ELSE LET shorter == SeqsUpTo(S, n - 1)
         IN  shorter \cup {Append(q, x) : q \in {r \in shorter : Len(r) = n - 1}, x \in S}

StackLines == {Frame5, Frame10, FrameNoId}
Stacks == SeqsUpTo(StackLines, MaxStack)
\* what follows the call stack: end of file, a blank line or REGISTERS:
Endings == {<<>>, <<NL, TextLine>>, <<REGISTERS, TextLine>>}

\* crash logs: with the marker, every call stack with every ending; without
\* it, an empty file, a plain one and one whose frames follow a look-alike
LogFiles ==
    {<<TextLine, MARKER>> \o st \o e : st \in Stacks, e \in Endings}
    \cup {<<>>, <<TextLine>>, <<NearMarker, Frame5, NL, TextLine>>}

\* the log a later crash of the game leaves at the second path
SecondLog == <<MARKER, Frame5, NL>>

\* database lines: b"id\tname\n" (header), b"5 a_\n", b"10 b*_\n", b"20 c\n"
DbHeader == <<"i","d","\t","n","a","m","e","\n">>
Db5 == <<"5"," ","a","_","\n">>
Db10 == <<"1","0"," ","b","*","_","\n">>
Db20 == <<"2","0"," ","c","\n">>
\* lines that are not "<id> <name>": b"7 x y\n" and b"x7 y\n"
DbThree == <<"7"," ","x"," ","y","\n">>
DbNoInt == <<"x","7"," ","y","\n">>

\* database files: zero bytes, header only, complete, one id of the logs
\* only, none of them, and those with a blank line, a name with a space in
\* it or an id that is not a number
Databases ==
    {<<>>, <<DbHeader>>, <<DbHeader, Db5, Db10, Db20>>, <<DbHeader, Db10>>,
     <<DbHeader, Db5, Db20>>, <<DbHeader, Db20>>, <<DbHeader, Db5, NL, Db10>>,
     <<DbHeader, Db5, DbThree, Db10>>, <<DbHeader, DbNoInt, Db5>>}

NoLog == [pre_call_stack |-> <<>>, call_stack |-> <<>>, post_call_stack |-> <<>>,
          changed |-> FALSE]

\* previous before any restart
NoPrevious == [ran |-> FALSE, id_list |-> <<>>, width |-> 0, wrote |-> FALSE,
               raised |-> FALSE]

\* the state before any process_log call
Idle ==
    /\ pc = "idle" /\ log = "crash-1.log" /\ crash_log = NoLog
    /\ id_list = <<>> /\ idx = 1 /\ width = 0 /\ id_lookup = <<>>
    /\ scanner = IdScanner
    /\ before = <<>> /\ original = <<>> /\ trace = <<>> /\ rewrites = 0
    /\ new_call_stack = <<>>
    /\ finds = <<>> /\ previous = NoPrevious

\* CrashLogLabeler.__init__ and init, with the files the host session finds
Init ==
    /\ \E first \in LogFiles :
          files = [p \in Paths |-> IF p = "crash-1.log" THEN first ELSE SecondLog]
    /\ present \in {{"crash-1.log"}, Paths}
    /\ \/ dbExists = TRUE /\ dbLines \in Databases
       \/ dbExists = FALSE /\ dbLines = <<>>
    /\ finder = FALSE /\ processor = FALSE /\ processed_logs = {}
    /\ callback = "none" /\ calls = 0 /\ uiInitialized = FALSE
    /\ logs = {} /\ todo = {} /\ raised = FALSE
    /\ Idle

(* ---------------------- CrashLogLabeler callbacks --------------------- *)
\* onUserInterfaceInitializedCallback up to its for loop; supported says
\* whether crashlogs.get_finder(game) knows the managed game. The plugin
\* setting offline_mode is at its default, True: no update_database().
onUserInterfaceInitializedCallback ==
    /\ callback = "none" /\ ~uiInitialized /\ calls < MaxCallbacks
    /\ calls' = calls + 1
    /\ uiInitialized' = TRUE
    /\ raised' = FALSE
    /\ \E supported \in BOOLEAN :
        /\ finder' = supported
        /\ IF ~supported
           THEN UNCHANGED <<processor, callback, logs, todo>>
           ELSE /\ processor' = TRUE
                /\ callback' = "init"
                /\ logs' = present
                /\ todo' = present
    /\ UNCHANGED <<processed_logs, fsVars, dbVars, lookupVars, pc, log,
                   crash_log, before, original, trace, rewrites, new_call_stack,
                   histVars>>

\* onFinishedRunCallback that takes every log of the directory, without
\* .difference(self.processed_logs)
onFinishedRunCallback_all_logs ==
    /\ callback = "none" /\ calls < MaxCallbacks
    /\ calls' = calls + 1
    /\ IF ~finder
       THEN /\ raised' = TRUE
            /\ UNCHANGED <<callback, logs, todo>>
       ELSE LET new_logs == present
            IN  /\ raised' = FALSE
                /\ IF new_logs = {}
                   THEN UNCHANGED <<callback, logs, todo>>
                   ELSE /\ callback' = "finished"
                        /\ logs' = new_logs
                        /\ todo' = new_logs
    /\ UNCHANGED <<finder, processor, processed_logs, uiInitialized,
                   fsVars, dbVars, lookupVars, pc, log, crash_log, before, original,
                   trace, rewrites, new_call_stack, histVars>>

\* onFinishedRunCallback up to its for loop; self.finder is None raises
onFinishedRunCallback ==
    /\ callback = "none" /\ calls < MaxCallbacks
    /\ calls' = calls + 1
    /\ IF ~finder
       THEN /\ raised' = TRUE
            /\ UNCHANGED <<callback, logs, todo>>
       ELSE LET new_logs == present \ processed_logs
            IN  /\ raised' = FALSE
                /\ IF new_logs = {}
                   THEN UNCHANGED <<callback, logs, todo>>
                   ELSE /\ callback' = "finished"
                        /\ logs' = new_logs
                        /\ todo' = new_logs
    /\ UNCHANGED <<finder, processor, processed_logs, uiInitialized,
                   fsVars, dbVars, lookupVars, pc, log, crash_log, before, original,
                   trace, rewrites, new_call_stack, histVars>>

\* the end of either for loop: self.processed_logs.update(...)
callback_return ==
    /\ callback /= "none" /\ pc = "idle" /\ todo = {}
    /\ processed_logs' = processed_logs \cup logs
    /\ callback' = "none"
    /\ UNCHANGED <<finder, processor, calls, uiInitialized, logs, todo,
                   raised, fsVars, dbVars, lookupVars, pc, log, crash_log, before,
                   original, trace, rewrites, new_call_stack, histVars>>

\* the game crashes and leaves a new log in the directory
game_writes_log ==
    /\ callback = "none"
    /\ \E p \in Paths \ present : present' = present \cup {p}
    /\ UNCHANGED <<files, dbVars, labelerVars, lookupVars, pc, log, crash_log, before,
                   original, trace, rewrites, new_call_stack, histVars>>

\* an exception leaves process_log and the callback's for loop
Raise ==
    /\ pc' = "idle"
    /\ callback' = "none"
    /\ raised' = TRUE

(* --------------------- CrashLogProcessor.process_log ------------------ *)
\* the for loop takes the next log (a set: any order); process_log reads it
\* and collects addr_ids and width; no ids: return
process_log ==
    /\ callback /= "none" /\ pc = "idle"
    /\ \E next \in todo :
        LET cl == CrashLog(files[next])
            addr_ids == addr_ids_of(cl.call_stack)
        IN  /\ todo' = todo \ {next}
            /\ log' = next
            /\ crash_log' = cl
            /\ before' = files[next]
            /\ original' = cl.call_stack
            /\ trace' = <<>>
            /\ rewrites' = 0
            /\ new_call_stack' = <<>>
            /\ width' = width_of(cl.call_stack)
            /\ id_list' = sorted(addr_ids)
            /\ idx' = 1
            /\ id_lookup' = <<>>
            /\ scanner' = IdScanner
            /\ finds' = <<>>
            /\ pc' = IF addr_ids = {} THEN "idle" ELSE "lookup_ids"
    /\ UNCHANGED <<finder, processor, processed_logs, callback, calls,
                   uiInitialized, logs, raised, fsVars, dbVars, previous>>

\* lookup_ids: no database file: return {} and process_log returns;
\* otherwise IdScanner(database).__enter__()
lookup_ids ==
    /\ pc = "lookup_ids"
    /\ IF ~dbExists
       THEN pc' = "idle" /\ UNCHANGED scanner
       ELSE pc' = "find" /\ scanner' = enter(IdScanner, dbLines)
    /\ UNCHANGED <<id_list, idx, width, id_lookup, fsVars, dbVars, labelerVars, log,
                   crash_log, before, original, trace, rewrites, new_call_stack,
                   histVars>>

\* one turn of the loop of lookup_ids: scanner.find(addr_id); a ValueError
\* leaves the with block (the file is closed) and propagates
lookup_find ==
    /\ pc = "find" /\ idx <= Len(id_list)
    /\ LET r == find(scanner, dbLines, id_list[idx])
       IN  IF r.raised
           THEN /\ scanner' = exit(r.scanner)
                /\ Raise
                /\ UNCHANGED <<idx, id_lookup, finds>>
           ELSE /\ scanner' = r.scanner
                /\ idx' = idx + 1
                /\ finds' = Append(finds, <<id_list[idx], r.name>>)
                /\ id_lookup' = IF r.name /= <<>>
                                THEN (id_list[idx] :> r.name) @@ id_lookup
                                ELSE id_lookup
                /\ UNCHANGED <<pc, callback, raised>>
    /\ UNCHANGED <<id_list, width, fsVars, dbVars, finder, processor,
                   processed_logs, calls, uiInitialized, logs, todo, log, crash_log,
                   before, original, trace, rewrites, new_call_stack, previous>>

\* lookup_return without "if not id_lookup: return"
lookup_return_no_gate ==
    /\ pc = "find" /\ idx > Len(id_list)
    /\ scanner' = exit(scanner)
    /\ pc' = "rewrite"
    /\ UNCHANGED <<id_list, idx, width, id_lookup, fsVars, dbVars, labelerVars, log,
                   crash_log, before, original, trace, rewrites, new_call_stack,
                   histVars>>

\* the end of the with block, return lookup; process_log returns on an
\* empty mapping
lookup_return ==
    /\ pc = "find" /\ idx > Len(id_list)
    /\ scanner' = exit(scanner)
    /\ pc' = IF DOMAIN id_lookup = {} THEN "idle" ELSE "rewrite"
    /\ UNCHANGED <<id_list, idx, width, id_lookup, fsVars, dbVars, labelerVars, log,
                   crash_log, before, original, trace, rewrites, new_call_stack,
                   histVars>>

\* rewrite that goes on to write_file without the delete callback
rewrite_skips_delete ==
    /\ pc = "rewrite"
    /\ LET callback_ == [l \in Range(crash_log.call_stack) |->
                             add_name(l, id_lookup, width)]
       IN  /\ crash_log' = rewrite_call_stack(crash_log, callback_)
           /\ new_call_stack' = [i \in 1..Len(crash_log.call_stack) |->
                                    callback_[crash_log.call_stack[i]]]
    /\ rewrites' = rewrites + 1
    /\ pc' = IF crash_log'.changed THEN "write" ELSE "idle"
    /\ UNCHANGED <<fsVars, dbVars, labelerVars, lookupVars, log, before, original, trace,
                   histVars>>

\* crash_log.rewrite_call_stack(lambda a_line: self.add_name(...)), then
\* "if crash_log.changed"
rewrite ==
    /\ pc = "rewrite"
    /\ LET callback_ == [l \in Range(crash_log.call_stack) |->
                             add_name(l, id_lookup, width)]
       IN  /\ crash_log' = rewrite_call_stack(crash_log, callback_)
           /\ new_call_stack' = [i \in 1..Len(crash_log.call_stack) |->
                                    callback_[crash_log.call_stack[i]]]
    /\ rewrites' = rewrites + 1
    /\ pc' = IF crash_log'.changed THEN "delete" ELSE "idle"
    /\ UNCHANGED <<fsVars, dbVars, labelerVars, lookupVars, log, before, original, trace,
                   histVars>>

\* self.delete_callback(log): QFile(str(file)).moveToTrash(), which moves
\* the file away or fails and returns false; the result is not looked at
delete_callback ==
    /\ pc = "delete"
    /\ \E moved \in BOOLEAN : present' = IF moved THEN present \ {log} ELSE present
    /\ trace' = Append(trace, <<"delete", log>>)
    /\ pc' = "write"
    /\ UNCHANGED <<files, dbVars, labelerVars, lookupVars, log, crash_log, before,
                   original, rewrites, new_call_stack, histVars>>

\* crash_log.write_file(log)
write ==
    /\ pc = "write"
    /\ files' = [files EXCEPT ![log] = write_file(crash_log)]
    /\ present' = present \cup {log}
    /\ trace' = Append(trace, <<"write", log>>)
    /\ pc' = "idle"
    /\ UNCHANGED <<dbVars, labelerVars, lookupVars, log, crash_log, before, original,
                   rewrites, new_call_stack, histVars>>

Next ==
    \/ onUserInterfaceInitializedCallback
    \/ onFinishedRunCallback
    \/ callback_return
    \/ game_writes_log
    \/ process_log
    \/ lookup_ids
    \/ lookup_find
    \/ lookup_return
    \/ rewrite
    \/ delete_callback
    \/ write

Spec == Init /\ [][Next]_vars

(* ------------------- process_log with a failing write ----------------- *)
\* crash_log.write_file(log) raises OSError: open(path, "wb") fails and the
\* path is left as the delete callback left it, or it has created or
\* truncated the file and writelines fails after n of the lines
write_fails ==
    /\ pc = "write"
    /\ \E opened \in BOOLEAN :
          IF opened
          THEN /\ \E n \in 0..(Len(write_file(crash_log)) - 1) :
                     files' = [files EXCEPT ![log] = SubSeq(write_file(crash_log), 1, n)]
               /\ present' = present \cup {log}
          ELSE UNCHANGED <<files, present>>
    /\ trace' = Append(trace, <<"write failed", log>>)
    /\ Raise
    /\ UNCHANGED <<dbVars, finder, processor, processed_logs, calls, uiInitialized,
                   logs, todo, lookupVars, log, crash_log, before, original,
                   rewrites, new_call_stack, histVars>>

NextIO == Next \/ write_fails

SpecIO == Init /\ [][NextIO]_vars

(* --------------- process_log again in a later session ----------------- *)
\* the host is started again: a new CrashLogLabeler (__init__, init); the
\* files stay; previous keeps what the last process_log call computed
restart ==
    /\ callback = "none" /\ uiInitialized /\ calls < MaxCallbacks
    /\ finder' = FALSE /\ processor' = FALSE /\ processed_logs' = {}
    /\ uiInitialized' = FALSE
    /\ logs' = {} /\ todo' = {} /\ raised' = FALSE
    /\ previous' = [ran |-> log \in logs \ todo, id_list |-> id_list, width |-> width,
                    wrote |-> trace /= <<>> /\ trace[Len(trace)] = <<"write", log>>,
                    raised |-> raised]
    /\ UNCHANGED <<callback, calls, fsVars, dbVars, lookupVars, pc, log, crash_log,
                   before, original, trace, rewrites, new_call_stack, finds>>

\* a session that finds one log
InitTwice == Init /\ present = {"crash-1.log"}

NextTwice ==
    \/ onUserInterfaceInitializedCallback
    \/ callback_return
    \/ process_log
    \/ lookup_ids
    \/ lookup_find
    \/ lookup_return
    \/ rewrite
    \/ delete_callback
    \/ write
    \/ restart

SpecTwice == InitTwice /\ [][NextTwice]_vars

(* ------------- segmentation alone: read_file, write_file -------------- *)
SegLines == {MARKER, NL, REGISTERS, TextLine, Frame5}

\* the files of at most MaxLogLines lines, complete or cut off inside the
\* REGISTERS: line
SegFiles ==
    SeqsUpTo(SegLines, MaxLogLines)
    \cup {Append(f, RegistersCut) : f \in SeqsUpTo(SegLines, MaxLogLines - 1)}

\* a log file of at most MaxLogLines lines, not yet read
InitSeg ==
    /\ \E f \in SegFiles :
          /\ files = [p \in Paths |-> IF p = "crash-1.log" THEN f ELSE <<>>]
          /\ before = f
    /\ present = {"crash-1.log"}
    /\ dbExists = FALSE /\ dbLines = <<>>
    /\ finder = FALSE /\ processor = FALSE /\ processed_logs = {}
    /\ callback = "none" /\ calls = 0 /\ uiInitialized = FALSE
    /\ logs = {} /\ todo = {} /\ raised = FALSE
    /\ pc = "read" /\ log = "crash-1.log" /\ crash_log = NoLog
    /\ id_list = <<>> /\ idx = 1 /\ width = 0 /\ id_lookup = <<>>
    /\ scanner = IdScanner
    /\ original = <<>> /\ trace = <<>> /\ rewrites = 0 /\ new_call_stack = <<>>
    /\ finds = <<>> /\ previous = NoPrevious

\* CrashLog(path)
read ==
    /\ pc = "read"
    /\ crash_log' = CrashLog(files[log])
    /\ original' = crash_log'.call_stack
    /\ pc' = "parsed"
    /\ UNCHANGED <<fsVars, dbVars, labelerVars, lookupVars, log, before, trace,
                   rewrites, new_call_stack, histVars>>

\* crash_log.write_file(path) with no rewrite_call_stack before it
write_back ==
    /\ pc = "parsed"
    /\ files' = [files EXCEPT ![log] = write_file(crash_log)]
    /\ pc' = "written"
    /\ UNCHANGED <<present, dbVars, labelerVars, lookupVars, log, crash_log, before,
                   original, trace, rewrites, new_call_stack, histVars>>

NextSeg == read \/ write_back

SpecSeg == InitSeg /\ [][NextSeg]_vars

(* --------------- resolution alone: lookup_ids, IdScanner -------------- *)
DigitChar(d) == CHOOSE c \in Digit : DigitVal(c) = d

\* str(n).encode() of a natural number
RECURSIVE Format(_)
Format(n) ==
    IF n < 10 THEN <<DigitChar(n)>> ELSE Format(n \div 10) \o <<DigitChar(n % 10)>>

DbIds == {5 * k : k \in 1..MaxDbIds}
ProbeIds == DbIds \cup {5 * k + 2 : k \in 0..MaxDbIds}
NameOf(id) == <<"f">> \o Format(id) \o <<"_">>
DbLine(id) == Format(id) \o <<" ">> \o NameOf(id) \o NL
\* the database file with a header and the lines of the ids of S, ascending
DbOf(S) == <<DbHeader>> \o [i \in 1..Cardinality(S) |-> DbLine(sorted(S)[i])]

\* lookup_ids is about to run for a sorted, duplicate-free id list on a
\* database that is missing or sorted ascending by id
InitLookup ==
    /\ files = [p \in Paths |-> <<>>]
    /\ present = {"crash-1.log"}
    /\ \/ dbExists = TRUE /\ \E S \in SUBSET DbIds : dbLines = DbOf(S)
       \/ dbExists = FALSE /\ dbLines = <<>>
    /\ finder = TRUE /\ processor = TRUE /\ processed_logs = {}
    /\ callback = "init" /\ calls = 1 /\ uiInitialized = TRUE
    /\ logs = {"crash-1.log"} /\ todo = {} /\ raised = FALSE
    /\ pc = "lookup_ids" /\ log = "crash-1.log" /\ crash_log = NoLog
    /\ \E P \in (SUBSET ProbeIds) \ {{}} : id_list = sorted(P)
    /\ idx = 1 /\ width = 0 /\ id_lookup = <<>>
    /\ scanner = IdScanner
    /\ before = <<>> /\ original = <<>> /\ trace = <<>> /\ rewrites = 0
    /\ new_call_stack = <<>>
    /\ finds = <<>> /\ previous = NoPrevious

NextLookup == lookup_ids \/ lookup_find \/ lookup_return

SpecLookup == InitLookup /\ [][NextLookup]_vars

(* ------------- IdScanner alone: any sequence of find calls ------------ *)
\* "with IdScanner(database) as scanner" has entered, on a database sorted
\* ascending by id
InitScanner ==
    /\ files = [p \in Paths |-> <<>>]
    /\ present = {"crash-1.log"}
    /\ dbExists = TRUE
    /\ \E S \in SUBSET DbIds :
          /\ dbLines = DbOf(S)
          /\ scanner = enter(IdScanner, DbOf(S))
    /\ finder = TRUE /\ processor = TRUE /\ processed_logs = {}
    /\ callback = "init" /\ calls = 1 /\ uiInitialized = TRUE
    /\ logs = {"crash-1.log"} /\ todo = {} /\ raised = FALSE
    /\ pc = "scan" /\ log = "crash-1.log" /\ crash_log = NoLog
    /\ id_list = <<>> /\ idx = 1 /\ width = 0 /\ id_lookup = <<>>
    /\ before = <<>> /\ original = <<>> /\ trace = <<>> /\ rewrites = 0
    /\ new_call_stack = <<>>
    /\ finds = <<>> /\ previous = NoPrevious

\* scanner.find(addr_id) for any id, in any order
scanner_find ==
    /\ pc = "scan" /\ Len(finds) < MaxProbes
    /\ \E addr_id \in ProbeIds :
        LET r == find(scanner, dbLines, addr_id)
        IN  IF r.raised
            THEN /\ scanner' = exit(r.scanner)
                 /\ Raise
                 /\ UNCHANGED finds
            ELSE /\ scanner' = r.scanner
                 /\ finds' = Append(finds, <<addr_id, r.name>>)
                 /\ UNCHANGED <<pc, callback, raised>>
    /\ UNCHANGED <<id_list, idx, width, id_lookup, fsVars, dbVars, finder, processor,
                   processed_logs, calls, uiInitialized, logs, todo, log, crash_log,
                   before, original, trace, rewrites, new_call_stack, previous>>

\* the end of the with block: IdScanner.__exit__
scanner_exit ==
    /\ pc = "scan"
    /\ scanner' = exit(scanner)
    /\ pc' = "idle"
    /\ UNCHANGED <<id_list, idx, width, id_lookup, fsVars, dbVars, labelerVars, log,
                   crash_log, before, original, trace, rewrites, new_call_stack,
                   histVars>>

NextScanner == scanner_find \/ scanner_exit

SpecScanner == InitScanner /\ [][NextScanner]_vars

(* ------------------ CrashLog.rewrite_call_stack alone ----------------- *)
\* a CrashLog just constructed from a log file
InitRewrite ==
    /\ \E f \in LogFiles :
          /\ files = [p \in Paths |-> IF p = "crash-1.log" THEN f ELSE <<>>]
          /\ before = f
          /\ crash_log = CrashLog(f)
          /\ original = CrashLog(f).call_stack
    /\ present = {"crash-1.log"}
    /\ dbExists = FALSE /\ dbLines = <<>>
    /\ finder = FALSE /\ processor = FALSE /\ processed_logs = {}
    /\ callback = "none" /\ calls = 0 /\ uiInitialized = FALSE
    /\ logs = {} /\ todo = {} /\ raised = FALSE
    /\ pc = "rewrite" /\ log = "crash-1.log"
    /\ id_list = <<>> /\ idx = 1 /\ width = 0 /\ id_lookup = <<>>
    /\ scanner = IdScanner
    /\ trace = <<>> /\ rewrites = 0 /\ new_call_stack = <<>>
    /\ finds = <<>> /\ previous = NoPrevious

\* crash_log.rewrite_call_stack(callback) for any callback line -> line
rewrite_any ==
    /\ pc = "rewrite" /\ rewrites < MaxRewrites
    /\ \E callback_ \in [Range(crash_log.call_stack) -> StackLines] :
        /\ crash_log' = rewrite_call_stack(crash_log, callback_)
        /\ new_call_stack' = [i \in 1..Len(crash_log.call_stack) |->
                                 callback_[crash_log.call_stack[i]]]
    /\ rewrites' = rewrites + 1
    /\ UNCHANGED <<fsVars, dbVars, labelerVars, lookupVars, pc, log, before, original,
                   trace, histVars>>

NextRewrite == rewrite_any

SpecRewrite == InitRewrite /\ [][NextRewrite]_vars

(* ============================== claims ================================ *)
\* the call-stack segment of a log file, as the claims speak of it: the lines
\* after the first marker line up to the first blank or REGISTERS: line
FirstMarker(f) == FirstIn(f, 1, {MARKER})
FirstTerminator(f) ==
    IF FirstMarker(f) = 0 THEN 0 ELSE FirstIn(f, FirstMarker(f) + 1, {NL, REGISTERS})
SegmentEnd(f) == IF FirstTerminator(f) = 0 THEN Len(f) ELSE FirstTerminator(f) - 1
Segment(f) == IF FirstMarker(f) = 0 THEN {} ELSE (FirstMarker(f) + 1)..SegmentEnd(f)
Trailer(f) ==
    IF FirstTerminator(f) = 0 THEN <<>> ELSE SubSeq(f, FirstTerminator(f), Len(f))
EndsWithRegisters(f) == FirstTerminator(f) /= 0 /\ f[FirstTerminator(f)] = REGISTERS

DeleteEvent == <<"delete", log>>
WriteEvent == <<"write", log>>
\* the last process_log call wrote the log back
Written == pc = "idle" /\ trace /= <<>> /\ trace[Len(trace)] = WriteEvent
\* the for loop of the current or last callback has handed log to process_log
Ran == log \in logs \ todo

\* C1 as claimed: whenever process_log writes a log back, the written file has
\* as many lines as the original, and its lines before and after the
\* call-stack segment are the original's, also for a REGISTERS: terminator.
C1_Original ==
    Written =>
        LET out == files[log]
            m   == FirstMarker(before)
            t   == FirstTerminator(before)
        IN  /\ Len(out) = Len(before)
            /\ SubSeq(out, 1, m) = SubSeq(before, 1, m)
            /\ t /= 0 => SubSeq(out, t, Len(out)) = SubSeq(before, t, Len(before))

\* C1 amended: whenever process_log writes a log back, the preamble and the
\* lines from the terminator on are written unchanged and in order, each
\* call-stack line is replaced by one line, and the only line added is one
\* "\n" right before a "REGISTERS:\n" terminator.
C1_FrameEffect ==
    Written =>
        LET out == files[log]
            m   == FirstMarker(before)
            n   == SegmentEnd(before) - m
            ins == IF EndsWithRegisters(before) THEN <<NL>> ELSE <<>>
        IN  /\ Len(out) = Len(before) + Len(ins)
            /\ SubSeq(out, 1, m) = SubSeq(before, 1, m)
            /\ SubSeq(out, m + n + 1, Len(out)) = ins \o Trailer(before)

C1_Witness ==
    /\ Written /\ EndsWithRegisters(before)
    /\ files[log] /= before

\* C2 as claimed: reading a well-formed log (marker, call stack, blank or
\* REGISTERS: line, trailing lines) and writing it with no rewrite in
\* between gives back the input.
WellFormedLog(f) == FirstMarker(f) /= 0 /\ FirstTerminator(f) /= 0
C2_Original ==
    (pc = "written" /\ WellFormedLog(before)) => files[log] = before

\* C2 amended: the round trip gives back the input when the call stack ends
\* at a blank line; when it ends at "REGISTERS:\n" the output is the input
\* with one "\n" line inserted before that line.
C2_RoundTrip ==
    (pc = "written" /\ WellFormedLog(before)) =>
        LET t == FirstTerminator(before)
        IN  files[log] = IF before[t] = REGISTERS
                         THEN SubSeq(before, 1, t - 1) \o <<NL>>
                              \o SubSeq(before, t, Len(before))
                         ELSE before

C2_Witness ==
    /\ pc = "written" /\ EndsWithRegisters(before)
    /\ Segment(before) /= {}
    /\ Len(files[log]) = Len(before) + 1

\* C3: for a database sorted strictly ascending by id and a strictly
\* ascending probe list, lookup_ids returns exactly the probed ids that are in
\* the database, each with the name of its line, and no database line is read
\* twice.
LookupReturned == pc \in {"idle", "rewrite"}
IdsInDb == {id \in DbIds : DbLine(id) \in Range(dbLines)}
C3_MergeJoin ==
    /\ (LookupReturned /\ dbExists) =>
          /\ DOMAIN id_lookup = Range(id_list) \cap IdsInDb
          /\ \A id \in DOMAIN id_lookup : id_lookup[id] = NameOf(id)
    /\ \A i, j \in 1..Len(scanner.reads) : i < j => scanner.reads[i] < scanner.reads[j]

C3_Witness ==
    /\ LookupReturned /\ dbExists
    /\ Cardinality(DOMAIN id_lookup) >= 2
    /\ Range(id_list) \ IdsInDb /= {}
    /\ IdsInDb \ Range(id_list) /= {}

\* C4: when lookup_ids returns an empty mapping, process_log leaves the file
\* as it was and does not invoke the delete callback.
LookupEmpty ==
    /\ pc = "idle" /\ id_list /= <<>> /\ DOMAIN id_lookup = {}
    /\ (~dbExists \/ (idx > Len(id_list) /\ scanner.f = "closed"))
C4_Gate ==
    LookupEmpty => (files[log] = before /\ trace = <<>> /\ log \in present)

C4_Witness ==
    /\ LookupEmpty /\ dbExists /\ Len(dbLines) > 1
    /\ Frame10 \in Range(original)

\* C5: in one process_log call the delete callback is invoked at most once,
\* on the log path, and before the write; a call in which a call-stack line
\* changed ends with exactly one delete followed by one write, and there is
\* no write without the delete before it.
C5_DeleteBeforeWrite ==
    /\ trace \in {<<>>, <<DeleteEvent>>, <<DeleteEvent, WriteEvent>>}
    /\ (pc = "idle" /\ crash_log.call_stack /= original) =>
          trace = <<DeleteEvent, WriteEvent>>
    /\ pc = "write" => trace = <<DeleteEvent>>

C5_Witness ==
    /\ pc = "idle" /\ crash_log.call_stack /= original
    /\ trace = <<DeleteEvent, WriteEvent>>

\* C6: process_log does nothing (no write, no delete callback, same bytes)
\* for a log whose call-stack segment has no line matching the pattern, which
\* includes the logs without the marker line and the truncated ones.
NoFrameInSegment(f) == \A i \in Segment(f) : ~STACK_PATTERN(f[i]).matched
C6_NoOp ==
    (Ran /\ NoFrameInSegment(before)) =>
        (pc = "idle" /\ files[log] = before /\ trace = <<>> /\ log \in present)

C6_Witness ==
    /\ Ran /\ before = <<NearMarker, Frame5, NL, TextLine>>
    /\ dbExists /\ Db5 \in Range(dbLines)

\* the call-stack lines whose id the lookup has / does not have
Unresolved(i) ==
    STACK_PATTERN(original[i]).matched
    /\ STACK_PATTERN(original[i]).id \notin DOMAIN id_lookup
Resolved(i) ==
    STACK_PATTERN(original[i]).matched
    /\ STACK_PATTERN(original[i]).id \in DOMAIN id_lookup

\* C7 as claimed: add_name of a matching line whose id is not in the lookup
\* is the frame text before " -> " and a newline.
C7_Original ==
    rewrites = 1 =>
        \A i \in 1..Len(original) :
            Unresolved(i) =>
                new_call_stack[i] = STACK_PATTERN(original[i]).group1 \o NL

\* C7 amended: add_name of a matching line whose id is not in the lookup is
\* the whole matched text, the " -> <id>+0x<hex>" suffix included, and a
\* newline; only the bytes after the match are dropped.
C7_Unresolved ==
    rewrites = 1 =>
        \A i \in 1..Len(original) :
            Unresolved(i) =>
                LET m == STACK_PATTERN(original[i])
                    n == new_call_stack[i]
                IN  /\ n = m.group0 \o NL
                    /\ SubSeq(n, 1, Len(n) - 1) = SubSeq(original[i], 1, Len(n) - 1)
                    /\ SubSeq(n, Len(m.group1) + 1, Len(m.group1) + 4)
                           = <<" ", "-", ">", " ">>

C7_Witness ==
    /\ rewrites = 1
    /\ \E i \in 1..Len(original) :
          Unresolved(i) /\ new_call_stack[i] /= original[i]

\* C8: add_name of a matching line whose id is in the lookup is the matched
\* text, spaces up to the column 1 + the longest matched text of the log, the
\* name without its trailing '_' and '*', and a newline: every name of a log
\* starts in the same column, after at least one space.
Decoration == {"_", "*"}
MatchedLengths ==
    {Len(STACK_PATTERN(original[i]).group0) :
        i \in {j \in 1..Len(original) : STACK_PATTERN(original[j]).matched}}
Column == 1 + (CHOOSE w \in MatchedLengths : \A v \in MatchedLengths : v <= w)
IsStripped(shown, name) ==
    /\ Len(shown) <= Len(name)
    /\ SubSeq(name, 1, Len(shown)) = shown
    /\ \A k \in (Len(shown) + 1)..Len(name) : name[k] \in Decoration
    /\ (shown = <<>> \/ shown[Len(shown)] \notin Decoration)
C8_Resolved ==
    rewrites = 1 =>
        \A i \in 1..Len(original) :
            Resolved(i) =>
                LET m == STACK_PATTERN(original[i])
                    n == new_call_stack[i]
                IN  /\ Len(n) > Column /\ Column > Len(m.group0)
                    /\ SubSeq(n, 1, Len(m.group0)) = m.group0
                    /\ \A k \in (Len(m.group0) + 1)..Column : n[k] = " "
                    /\ n[Len(n)] = "\n"
                    /\ IsStripped(SubSeq(n, Column + 1, Len(n) - 1), id_lookup[m.id])

C8_Witness ==
    /\ rewrites = 1
    /\ \E i, j \in 1..Len(original) :
          /\ Resolved(i) /\ Resolved(j)
          /\ Len(STACK_PATTERN(original[i]).group0)
                < Len(STACK_PATTERN(original[j]).group0)
          /\ id_lookup[STACK_PATTERN(original[j]).id] = <<"b", "*", "_">>

\* C9: changed is false after construction; a rewrite_call_stack call whose
\* result differs from the call stack stores it and sets changed; one whose
\* result is the same leaves the call stack and the flag alone; so after the
\* first call changed says whether it differed, and changed never goes back
\* to false.
C9_Changed ==
    /\ [](rewrites = 0 => ~crash_log.changed)
    /\ [][rewrites' /= rewrites =>
            /\ crash_log'.changed =
                  (crash_log.changed \/ new_call_stack' /= crash_log.call_stack)
            /\ new_call_stack' /= crash_log.call_stack =>
                  crash_log'.call_stack = new_call_stack'
            /\ new_call_stack' = crash_log.call_stack => crash_log' = crash_log
            /\ crash_log.changed => crash_log'.changed]_vars

C9_Witness ==
    /\ rewrites = 2 /\ crash_log.changed
    /\ new_call_stack = crash_log.call_stack
    /\ crash_log.call_stack /= original

\* C10 as claimed: when a callback is over, every log of its batch has been
\* handed to process_log, whatever happened while processing the others.
C10_BatchCompletes == callback = "none" => todo = {}


\* C11 as claimed: when the write of the rewritten content fails, the log's
\* path still holds the original content: it is not missing, truncated or
\* partly written.
WriteFailed == trace /= <<>> /\ trace[Len(trace)] = <<"write failed", log>>
C11_OriginalIntact ==
    WriteFailed => (log \in present /\ files[log] = before)

\* the last find call that returned, and the id of a database line
LastFind == finds[Len(finds)]
LineId(line) == IntOf(split(line)[1])
\* some find call was followed at once by a find call for the same id
Repeated(k) == k >= 2 /\ finds[k][1] = finds[k - 1][1]

\* C12 as claimed: after find returns a name the cursor is on the line after
\* the matched one, and a find of the same id repeated at once returns no
\* name.
C12_Original ==
    /\ (finds /= <<>> /\ LastFind[2] /= <<>>) =>
          (scanner.nextLine = <<>> \/ LineId(scanner.nextLine) /= LastFind[1])
    /\ \A k \in 1..Len(finds) :
          (Repeated(k) /\ finds[k - 1][2] /= <<>>) => finds[k][2] = <<>>

\* C12 amended: after find returns a name the cursor is still on the matched
\* line, no line was read past it, and a find of the same id repeated at once
\* returns the same name again.
C12_CursorStays ==
    /\ (finds /= <<>> /\ LastFind[2] /= <<>>) =>
          /\ scanner.nextLine = dbLines[scanner.pos]
          /\ split(scanner.nextLine) = <<Format(LastFind[1]), LastFind[2]>>
          /\ scanner.reads[Len(scanner.reads)] = scanner.pos
    /\ \A k \in 1..Len(finds) : Repeated(k) => finds[k][2] = finds[k - 1][2]

C12_Witness ==
    /\ Len(finds) >= 2 /\ Repeated(Len(finds))
    /\ LastFind[2] = NameOf(LastFind[1])
    /\ scanner.pos < Len(dbLines)

\* the cursor of s is at or before the cursor of t (end of file is last)
NotAfter(s, t) ==
    /\ s.pos <= t.pos
    /\ t.nextLine = <<>> \/
          (s.nextLine /= <<>> /\ LineId(s.nextLine) <= LineId(t.nextLine))

\* C13: over any sequence of find calls on one scanner the cursor never moves
\* back and the id of its line never decreases; a find call passes only lines
\* with a smaller id, so one that stops on a line with a larger id leaves the
\* cursor on that line; and a find for an id smaller than an earlier probe
\* returns no name, also when the id is in the database.
C13_Forward ==
    /\ [][NotAfter(scanner, scanner')]_vars
    /\ [][finds' /= finds =>
            /\ \A i \in scanner.pos..(scanner'.pos - 1) :
                  i >= 2 => LineId(dbLines[i]) < finds'[Len(finds')][1]
            /\ (finds'[Len(finds')][2] = <<>> /\ scanner'.nextLine /= <<>>) =>
                  LineId(scanner'.nextLine) > finds'[Len(finds')][1]]_vars
    /\ [](\A j, k \in 1..Len(finds) :
            (j < k /\ finds[j][1] > finds[k][1]) => finds[k][2] = <<>>)

C13_Witness ==
    /\ Len(finds) >= 2
    /\ finds[Len(finds) - 1][1] > LastFind[1]
    /\ LastFind[1] \in IdsInDb /\ LastFind[2] = <<>>
    /\ scanner.nextLine /= <<>> /\ LineId(scanner.nextLine) > LastFind[1]

\* C14: after read_file on any file, cut-off ones included, the call stack is
\* the lines after the first marker line up to, not including, the first
\* later "\n" or "REGISTERS:\n" line, or up to the end of the file; none of
\* its lines is "\n" or "REGISTERS:\n"; without a marker line the call stack
\* and the trailer are empty; and a trailer that is not empty starts with
\* "\n".
C14_Segmentation ==
    pc \in {"parsed", "written"} =>
        LET m    == FirstMarker(before)
            cs   == crash_log.call_stack
            post == crash_log.post_call_stack
        IN  /\ Len(cs) = Cardinality(Segment(before))
            /\ \A i \in 1..Len(cs) :
                  /\ cs[i] = before[m + i]
                  /\ cs[i] \notin {NL, REGISTERS}
            /\ m /= 0 =>
                  \A i \in (m + 1)..(m + Len(cs) + 1) :
                      i <= Len(before) =>
                          (before[i] \in {NL, REGISTERS} <=> i = m + Len(cs) + 1)
            /\ m = 0 => (cs = <<>> /\ post = <<>>)
            /\ m /= 0 => (post = <<>> <=> m + Len(cs) = Len(before))
            /\ post /= <<>> => post[1] = NL

C14_Witness ==
    /\ pc = "parsed"
    /\ crash_log.call_stack = <<Frame5, RegistersCut>>
    /\ crash_log.post_call_stack = <<>>

\* the scan of the current process_log call has read a database line, other
\* than the header, that is not a decimal id and one name
Corrupt(line) == Len(split(line)) /= 2 \/ ~IntOk(split(line)[1])
CorruptRead ==
    \E i \in Range(scanner.reads) : i >= 2 /\ Corrupt(dbLines[i])

\* C15: when the scan of lookup_ids reads a database line that is not a
\* decimal id and one name, find raises instead of skipping the line, no
\* mapping reaches the rewrite, and process_log ends with the log file as it
\* was and the delete callback not invoked.
C15_HardFault ==
    (Ran /\ CorruptRead /\ pc /= "find") =>
        /\ pc = "idle" /\ raised /\ callback = "none"
        /\ idx <= Len(id_list) /\ Corrupt(scanner.nextLine)
        /\ rewrites = 0 /\ ~crash_log.changed
        /\ trace = <<>> /\ log \in present /\ files[log] = before

C15_Witness ==
    /\ Ran /\ CorruptRead /\ pc = "idle"
    /\ DOMAIN id_lookup /= {}
    /\ DbThree \in Range(dbLines)

\* C16: lookup_ids does not open the database file when it does not exist,
\* and the handle it opened is open only while the loop of find calls runs:
\* it is closed when lookup_ids has returned or raised, and none is open
\* between two process_log calls.
C16_HandleScoped ==
    /\ ~dbExists => scanner.f = "None"
    /\ scanner.f = "open" <=> pc = "find"
    /\ (pc \in {"rewrite", "delete", "write"} \/ finds /= <<>>) => scanner.f /= "None"

C16_Witness ==
    /\ scanner.f = "closed" /\ raised /\ pc = "idle"
    /\ finds /= <<>> /\ idx <= Len(id_list)

\* C17: process_log on a log that an earlier session has processed, with the
\* same database, computes the same ids and the same width, rewrites every
\* call-stack line to itself, does not set changed, does not invoke the
\* delete callback and does not write the file.
C17_Idempotent ==
    (Ran /\ previous.ran) =>
        /\ id_list = previous.id_list /\ width = previous.width
        /\ rewrites >= 1 => new_call_stack = original
        /\ ~crash_log.changed /\ pc \notin {"delete", "write"}
        /\ trace = <<>> /\ files[log] = before /\ log \in present

C17_Witness ==
    /\ Ran /\ previous.ran /\ previous.wrote
    /\ pc = "idle" /\ rewrites = 1
    /\ \E i, j \in 1..Len(original) : Resolved(i) /\ Unresolved(j)

\* C18: processed_logs never shrinks; the logs onFinishedRunCallback iterates
\* are not in processed_logs, so every log handed to process_log is new to
\* the session: a path whose callback has completed is not processed again,
\* although its file is still in the directory.
C18_ProcessedOnce ==
    /\ [][processed_logs \subseteq processed_logs']_vars
    /\ [](callback = "finished" => (logs /= {} /\ logs \cap processed_logs = {}))
    /\ [][(callback /= "none" /\ todo' /= todo) =>
            (log' \in todo /\ log' \notin processed_logs)]_vars

C18_Witness ==
    /\ callback = "finished" /\ Ran /\ log = "crash-2.log"
    /\ processed_logs = {"crash-1.log"}
    /\ "crash-1.log" \in present
    /\ files["crash-1.log"] /= <<>> /\ CrashLog(files["crash-1.log"]).call_stack /= <<>>

\* C19 as claimed: in every order of the two callbacks, finder and processor
\* are set whenever onFinishedRunCallback runs, which starts with
\* self.finder.get_crash_logs().
C19_FinderSet ==
    [][onFinishedRunCallback => (finder /\ processor)]_vars
=============================================================================
